---------------------------- MODULE Spec2Model ----------------------------
(***************************************************************************)
(* Model of codingbrain/gms: the repository cache (RepoCache), the         *)
(* persistence of repositories through PersistentHandle, and the git       *)
(* synchronisation protocol (GitRepo.Sync).                                *)
(*                                                                         *)
(* Go strings are modelled as sequences of byte values, so that the JSON   *)
(* encoding used by Persist / Save and the decoding used by the factories  *)
(* / Load are computed byte by byte as encoding/json computes them.        *)
(***************************************************************************)
EXTENDS Integers, Sequences, FiniteSets, TLC

(***************************************************************************)
(* Bounds of the model.                                                    *)
(***************************************************************************)
\* number of distinct cache names the callers use
MaxNames == 2
\* number of distinct repositories the callers hand to Add
MaxRepos == 3
\* length of the paths given to URL detection
MaxPath == 5
\* number of entries of the trees given to the walker
MaxNodes == 5

(***************************************************************************)
(* Input alphabets.  97 = 'a', 60 = '<' (escaped by encoding/json),        *)
(* 255 = a byte that is never valid UTF-8.                                 *)
(***************************************************************************)
Bytes == <<97, 60, 255>>

\* the i-th string over Bytes: "a", "<", "\xff", "aa", "a<", ...
RECURSIVE StrAt(_)
StrAt(i) ==
    IF i <= Len(Bytes) THEN <<Bytes[i]>>
    ELSE Append(StrAt((i - 1) \div Len(Bytes)), Bytes[((i - 1) % Len(Bytes)) + 1])

\* the repository-name portions of the URLs handed to Add
RepoNameStrs == {StrAt(i) : i \in 1..MaxRepos}

\* the sub-path inside the repository: "/a"
SubPath == <<47, 97>>

\* cache names "a", "b", ...
Names == {<<96 + i>> : i \in 1..MaxNames}

\* base directory of the cache: "/c"
BaseDir == <<47, 99>>

(***************************************************************************)
(* encoding/json string encoding, as used by json.Marshal.                 *)
(***************************************************************************)
\* the JSON escape \uXXXX of U+003C and U+FFFD, as bytes
EscLT == <<92, 117, 48, 48, 51, 99>>
EscFFFD == <<92, 117, 102, 102, 102, 100>>
\* the UTF-8 encoding of U+FFFD
Utf8FFFD == <<239, 191, 189>>

StartsWith(s, p) == Len(s) >= Len(p) /\ SubSeq(s, 1, Len(p)) = p

Drop(s, n) == SubSeq(s, n + 1, Len(s))

\* json.Marshal of the characters of a string: '"' and '\' are escaped with
\* a backslash, '<' is HTML-escaped, a byte that is not valid UTF-8 is
\* replaced by the escape of U+FFFD, everything else is copied.
RECURSIVE JSONEscape(_)
JSONEscape(s) ==
    IF s = << >> THEN << >>
    ELSE LET b == Head(s) IN
         IF b = 34 \/ b = 92 THEN <<92, b>> \o JSONEscape(Tail(s))
         ELSE IF b = 60 THEN EscLT \o JSONEscape(Tail(s))
         ELSE IF b < 128 THEN <<b>> \o JSONEscape(Tail(s))
         ELSE IF StartsWith(s, Utf8FFFD) THEN Utf8FFFD \o JSONEscape(Drop(s, 3))
         ELSE EscFFFD \o JSONEscape(Tail(s))

HexVal(b) == IF b >= 97 THEN b - 87 ELSE b - 48

\* UTF-8 encoding of a code point of the basic plane
Utf8(cp) ==
    IF cp < 128 THEN <<cp>>
    ELSE IF cp < 2048 THEN <<192 + (cp \div 64), 128 + (cp % 64)>>
    ELSE <<224 + (cp \div 4096), 128 + ((cp \div 64) % 64), 128 + (cp % 64)>>

\* json.Unmarshal of the characters of a string literal
RECURSIVE JSONUnescape(_)
JSONUnescape(t) ==
    IF t = << >> THEN << >>
    ELSE IF Head(t) = 92 /\ Len(t) >= 2
         THEN IF t[2] = 117 /\ Len(t) >= 6
              THEN Utf8(((HexVal(t[3]) * 16 + HexVal(t[4])) * 16
                          + HexVal(t[5])) * 16 + HexVal(t[6]))
                   \o JSONUnescape(Drop(t, 6))
              ELSE <<t[2]>> \o JSONUnescape(Drop(t, 2))
         ELSE <<Head(t)>> \o JSONUnescape(Tail(t))

\* a JSON string literal: the escaped characters between double quotes
JSONString(s) == <<34>> \o JSONEscape(s) \o <<34>>

JSONStringValue(lit) == JSONUnescape(SubSeq(lit, 2, Len(lit) - 1))

(***************************************************************************)
(* Repositories and persistent handles.                                    *)
(***************************************************************************)
GitRepoType == "git"
LocalRepoType == "local"

\* the registry of factories, keyed by type tag
RepoFactories == {GitRepoType, LocalRepoType}

\* the GitRepo a caller hands to Add after detection of the URL "f:" name "/a"
MkGitRepo(name) ==
    [URL |-> <<102, 58>> \o name \o SubPath, Protocol |-> <<102>>, RepoName |-> name,
     Remote |-> <<102, 58>> \o name, Path |-> SubPath, Client |-> "client"]

GitRepos == {MkGitRepo(n) : n \in RepoNameStrs}

\* the zero GitRepo
EmptyGitRepo ==
    [URL |-> << >>, Protocol |-> << >>, RepoName |-> << >>, Remote |-> << >>,
     Path |-> << >>, Client |-> "nil"]

\* a JSON text: an object with string members, or a text that does not parse
GarbageText == [syntax |-> "garbage", members |-> << >>]

\* json.Marshal(r) for a GitRepo: the struct tags name the members, Client is
\* tagged "-" and is not written
MarshalGitRepo(r) ==
    [syntax |-> "object",
     members |-> [url |-> JSONString(r.URL), protocol |-> JSONString(r.Protocol),
                  name |-> JSONString(r.RepoName), remote |-> JSONString(r.Remote),
                  path |-> JSONString(r.Path)]]

\* GitRepo.Persist
GitRepoPersist(r) == [Type |-> GitRepoType, Opaque |-> MarshalGitRepo(r)]

Member(text, tag) ==
    IF tag \in DOMAIN text.members THEN JSONStringValue(text.members[tag]) ELSE << >>

\* json.Unmarshal into a fresh GitRepo: members fill the tagged fields,
\* absent members leave the zero value, Client is left nil
UnmarshalGitRepo(text) ==
    [URL |-> Member(text, "url"), Protocol |-> Member(text, "protocol"),
     RepoName |-> Member(text, "name"), Remote |-> Member(text, "remote"),
     Path |-> Member(text, "path"), Client |-> "nil"]

\* GitRepoFactory: <<repositories returned, error>>
GitRepoFactory(h) ==
    IF h.Type # GitRepoType THEN [repo |-> {}, err |-> FALSE, remote |-> FALSE]
    ELSE IF h.Opaque.syntax # "object"
         THEN [repo |-> {EmptyGitRepo}, err |-> TRUE, remote |-> TRUE]
         ELSE [repo |-> {UnmarshalGitRepo(h.Opaque)}, err |-> FALSE, remote |-> TRUE]

\* LocalRepoFactory: a LocalRepo has no Sync, it is not a RemoteRepo
LocalRepoFactory(h) ==
    IF h.Type # LocalRepoType THEN [repo |-> {}, err |-> FALSE, remote |-> FALSE]
    ELSE IF h.Opaque.syntax # "object"
         THEN [repo |-> {"LocalRepo"}, err |-> TRUE, remote |-> FALSE]
         ELSE [repo |-> {"LocalRepo"}, err |-> FALSE, remote |-> FALSE]

Factory(h) == IF h.Type = GitRepoType THEN GitRepoFactory(h) ELSE LocalRepoFactory(h)

\* filepath.Join(c.BaseDir, CacheReposDir, name) for a name without separators
LocalDirOf(name) == BaseDir \o <<47, 114, 101, 112, 111, 115, 47>> \o name

\* the CachedRepo built by Add and by Load
MkCachedRepo(name, remote) ==
    [Name |-> name, Remote |-> remote, LocalDir |-> LocalDirOf(name)]

\* CachedRepo.Persist passes through to the remote
CachedRepoPersist(cr) == GitRepoPersist(cr.Remote)


(***************************************************************************)
(* The config file repos.conf and its JSON form.                           *)
(***************************************************************************)
EncodeHandleRaw(h) == h

\* A PersistentHandle as it stands in the config file: its Opaque text is a
\* JSON string of the enclosing document, so its characters are escaped again.
EncodeHandle(h) ==
    [Type |-> h.Type,
     Opaque |-> [syntax |-> h.Opaque.syntax,
                 members |-> [t \in DOMAIN h.Opaque.members |->
                                  JSONEscape(h.Opaque.members[t])]]]

DecodeHandle(e) ==
    [Type |-> e.Type,
     Opaque |-> [syntax |-> e.Opaque.syntax,
                 members |-> [t \in DOMAIN e.Opaque.members |->
                                  JSONUnescape(e.Opaque.members[t])]]]

\* json.Marshal(cfg) of Save: one member per cached repo, keyed by its name
MarshalConfig(m) ==
    [k \in {JSONString(n) : n \in DOMAIN m} |->
        EncodeHandle(CachedRepoPersist(m[CHOOSE n \in DOMAIN m : JSONString(n) = k]))]

\* json.Decode(&cfg) of Load: name -> PersistentHandle
DecodeConfig(doc) ==
    [n \in {JSONStringValue(k) : k \in DOMAIN doc} |->
        DecodeHandle(doc[CHOOSE k \in DOMAIN doc : JSONStringValue(k) = n])]

NoFile == [exists |-> FALSE, decodable |-> FALSE, reposNull |-> TRUE, Repos |-> << >>]
GarbageFile == [exists |-> TRUE, decodable |-> FALSE, reposNull |-> TRUE, Repos |-> << >>]
NullReposFile == [exists |-> TRUE, decodable |-> TRUE, reposNull |-> TRUE, Repos |-> << >>]
ConfigFile(doc) == [exists |-> TRUE, decodable |-> TRUE, reposNull |-> FALSE, Repos |-> doc]

\* handles a config file found on disk may hold: a git repository, a local
\* repository, an entry of a type no factory is registered for, and entries
\* whose Opaque does not parse
LocalText ==
    [syntax |-> "object",
     members |-> [base |-> JSONString(<<47, 98>>), path |-> JSONString(<<97>>)]]

SeedHandles ==
    {GitRepoPersist(MkGitRepo(<<97>>)),
     [Type |-> LocalRepoType, Opaque |-> LocalText],
     [Type |-> "svn", Opaque |-> LocalText],
     [Type |-> GitRepoType, Opaque |-> GarbageText],
     [Type |-> LocalRepoType, Opaque |-> GarbageText]}

\* the names of the entries of a config file found on disk: "a", "b"
SeedNames == {<<97>>, <<98>>}

SeedDocs ==
    UNION {{[k \in {JSONString(n) : n \in S} |->
                EncodeHandle(f[CHOOSE n \in S : JSONString(n) = k])] :
            f \in [S -> SeedHandles]} : S \in SUBSET SeedNames}

SeedFiles == {NoFile, GarbageFile, NullReposFile} \cup {ConfigFile(d) : d \in SeedDocs}

(***************************************************************************)
(* State.                                                                  *)
(***************************************************************************)
VARIABLES
    reposIsNil,  \* RepoCache.repos is the nil map
    repos,       \* RepoCache.repos: name -> CachedRepo
    file,        \* the config file BaseDir/repos.conf
    crashed,     \* the process has panicked
    lastOp,      \* the last call on the cache and what it returned
    added,       \* name -> CachedRepo of the Adds whose Save reached the file
    fsys,        \* the file system under the directory given to Sync
    lastSync,    \* the last call of GitRepo.Sync: its steps and its result
    peer,        \* a second RepoCache value bound to the same BaseDir
    det,         \* the GitRepo given to Detect, the oracle and the probes sent
    walk         \* the tree given to RepoWalker.Visit and the trace of the walk

cacheVars == <<reposIsNil, repos, file, crashed, lastOp, added>>
syncVars == <<fsys, lastSync>>
outsideCache == <<fsys, lastSync, peer, det, walk>>
outsideSync == <<reposIsNil, repos, file, crashed, lastOp, added, peer, det, walk>>
vars == <<reposIsNil, repos, file, crashed, lastOp, added, fsys, lastSync, peer, det, walk>>

EmptyMap == << >>

\* before any call on the second cache, on Detect, on Visit
NoPeer == [isNil |-> TRUE, repos |-> << >>, op |-> "none", name |-> << >>, save |-> "none"]
NoDetect == [call |-> "none"]
NoWalk == [call |-> "none"]

NoOp ==
    [op |-> "none", name |-> << >>, arg |-> {}, err |-> "nil", ret |-> {},
     save |-> "none", errs |-> {}, fresh |-> FALSE, names |-> << >>]

\* RepoCache.Find: the entry, or nothing
Find(name) == IF name \in DOMAIN repos THEN {repos[name]} ELSE {}

MapPut(m, k, v) == [x \in DOMAIN m \cup {k} |-> IF x = k THEN v ELSE m[x]]

MapDel(m, k) == [x \in DOMAIN m \ {k} |-> m[x]]

\* &RepoCache{BaseDir: dir}: a new cache value (a restart of the single
\* writer); repos is the nil map until Load makes it
NewRepoCache ==
    /\ reposIsNil' = TRUE
    /\ repos' = EmptyMap
    /\ crashed' = FALSE
    /\ lastOp' = [NoOp EXCEPT !.op = "New"]
    /\ UNCHANGED <<file, added>>
    /\ UNCHANGED outsideCache

\* Load, per entry: the factory registered for the type tag, if any
LoadFactoryFails(h) == h.Type \in RepoFactories /\ Factory(h).err

LoadInserts(h) ==
    /\ h.Type \in RepoFactories
    /\ ~Factory(h).err
    /\ Factory(h).repo # {}
    /\ Factory(h).remote

LoadInsertedUntilError(cfg) ==
    IF \E n \in DOMAIN cfg : LoadFactoryFails(cfg[n])
    THEN {}
    ELSE {n \in DOMAIN cfg : LoadInserts(cfg[n])}

\* the names Load inserts, having tried every entry
LoadInserted(cfg) == {n \in DOMAIN cfg : LoadInserts(cfg[n])}

\* the entries whose factory error goes into the aggregate
LoadFailed(cfg) == {n \in DOMAIN cfg : LoadFactoryFails(cfg[n])}

LoadedRepo(cfg, n) == MkCachedRepo(n, CHOOSE r \in Factory(cfg[n]).repo : TRUE)

\* RepoCache.Load.  readOK: the store hands out a reader with the content of
\* the file; for a missing file the store either fails or hands out a reader
\* without content, and the decoder fails on it.
Load ==
    /\ ~crashed
    /\ \E readOK \in BOOLEAN :
        LET op == [NoOp EXCEPT !.op = "Load", !.fresh = reposIsNil] IN
        IF ~readOK
        THEN /\ lastOp' = [op EXCEPT !.err = "ReadErr"]
             /\ UNCHANGED <<reposIsNil, repos>>
        ELSE IF ~file.exists \/ ~file.decodable
        THEN /\ lastOp' = [op EXCEPT !.err = "DecodeErr"]
             /\ UNCHANGED <<reposIsNil, repos>>
        ELSE IF file.reposNull
        THEN /\ reposIsNil' = FALSE
             /\ repos' = repos
             /\ lastOp' = op
        ELSE LET cfg == DecodeConfig(file.Repos)
                 ins == LoadInserted(cfg)
                 bad == LoadFailed(cfg)
             IN  /\ reposIsNil' = FALSE
                 /\ repos' = [n \in DOMAIN repos \cup ins |->
                                 IF n \in ins THEN LoadedRepo(cfg, n) ELSE repos[n]]
                 /\ lastOp' = [op EXCEPT !.err = IF bad = {} THEN "nil" ELSE "Aggregated",
                                         !.errs = bad]
    /\ UNCHANGED <<file, crashed, added>>
    /\ UNCHANGED outsideCache

\* a Save that keeps the members the file holds under other names
SavedFileMerging(m) ==
    ConfigFile([k \in DOMAIN file.Repos \cup DOMAIN MarshalConfig(m) |->
                   IF k \in DOMAIN MarshalConfig(m) THEN MarshalConfig(m)[k]
                   ELSE file.Repos[k]])

\* RepoCache.Save on the map m: the file is replaced, or on failure left alone
SavedFile(m) == ConfigFile(MarshalConfig(m))

AddExistsNever(m, name) == FALSE

\* Add: is the name taken
AddExists(m, name) == name \in DOMAIN m

AddRollbackKeep(m, name) == m

\* Add: the map after a failed Save
AddRollback(m, name) == MapDel(m, name)

\* RepoCache.Add
Add(name, repo) ==
    /\ ~crashed
    /\ LET op == [NoOp EXCEPT !.op = "Add", !.name = name] IN
       IF AddExists(repos, name)
       THEN /\ lastOp' = [op EXCEPT !.err = "ErrRepoAlreadyExists", !.ret = {repos[name]},
                                    !.arg = {repo}]
            /\ UNCHANGED <<reposIsNil, repos, file, crashed, added>>
       ELSE IF reposIsNil
       THEN \* assignment to an entry of the nil map
            /\ crashed' = TRUE
            /\ lastOp' = [op EXCEPT !.err = "panic"]
            /\ UNCHANGED <<reposIsNil, repos, file, added>>
       ELSE LET cachedRepo == MkCachedRepo(name, repo)
                m == MapPut(repos, name, cachedRepo)
            IN  \E saveOK \in BOOLEAN :
                  IF saveOK
                  THEN /\ repos' = m
                       /\ file' = SavedFile(m)
                       /\ added' = [n \in (DOMAIN added \cap DOMAIN m) \cup {name} |->
                                       IF n = name THEN cachedRepo ELSE added[n]]
                       /\ lastOp' = [op EXCEPT !.ret = {cachedRepo}, !.save = "ok"]
                       /\ UNCHANGED <<reposIsNil, crashed>>
                  ELSE /\ repos' = AddRollback(m, name)
                       /\ lastOp' = [op EXCEPT !.err = "SaveErr", !.save = "failed"]
                       /\ UNCHANGED <<reposIsNil, file, crashed, added>>
    /\ UNCHANGED outsideCache

RemoveRollbackDrop(m, name, r) == m

\* Remove: the map after a failed Save
RemoveRollback(m, name, r) == MapPut(m, name, r)

\* RepoCache.Remove
Remove(name) ==
    /\ ~crashed
    /\ LET op == [NoOp EXCEPT !.op = "Remove", !.name = name] IN
       IF name \in DOMAIN repos
       THEN LET r == repos[name]
                m == MapDel(repos, name)
            IN  \E saveOK \in BOOLEAN :
                  IF saveOK
                  THEN /\ repos' = m
                       /\ file' = SavedFile(m)
                       /\ added' = [n \in DOMAIN added \cap DOMAIN m |-> added[n]]
                       /\ lastOp' = [op EXCEPT !.save = "ok"]
                       /\ UNCHANGED <<reposIsNil, crashed>>
                  ELSE /\ repos' = RemoveRollback(m, name, r)
                       /\ lastOp' = [op EXCEPT !.err = "SaveErr", !.save = "failed"]
                       /\ UNCHANGED <<reposIsNil, file, crashed, added>>
       ELSE /\ lastOp' = op
            /\ UNCHANGED <<reposIsNil, repos, file, crashed, added>>
    /\ UNCHANGED outsideCache

(***************************************************************************)
(* RepoCache.RepoNames.                                                    *)
(***************************************************************************)
\* a < b for Go strings: byte-wise lexicographic order
StrLess(a, b) ==
    \/ Len(a) < Len(b) /\ SubSeq(b, 1, Len(a)) = a
    \/ \E i \in 1..Len(a) :
          /\ i <= Len(b)
          /\ SubSeq(a, 1, i - 1) = SubSeq(b, 1, i - 1)
          /\ a[i] < b[i]

\* the strings of the sorted sequence s and the string x, in order
RECURSIVE InsertString(_, _)
InsertString(s, x) ==
    IF s = << >> THEN <<x>>
    ELSE IF StrLess(x, Head(s)) THEN <<x>> \o s
    ELSE <<Head(s)>> \o InsertString(Tail(s), x)

SortStringsNone(s) == s

\* sort.Strings(names)
RECURSIVE SortStrings(_)
SortStrings(s) ==
    IF s = << >> THEN << >>
    ELSE InsertString(SortStrings(SubSeq(s, 1, Len(s) - 1)), s[Len(s)])

\* the orders in which `for name := range m` may hand out the keys of m
RangeOrders(m) ==
    {o \in [1..Cardinality(DOMAIN m) -> DOMAIN m] :
        \A i, j \in 1..Cardinality(DOMAIN m) : o[i] = o[j] => i = j}

\* RepoCache.RepoNames
RepoNames ==
    /\ ~crashed
    /\ \E order \in RangeOrders(repos) :
          lastOp' = [NoOp EXCEPT !.op = "RepoNames", !.names = SortStrings(order)]
    /\ UNCHANGED <<reposIsNil, repos, file, crashed, added>>
    /\ UNCHANGED outsideCache

(***************************************************************************)
(* A second RepoCache on the same base directory.                          *)
(***************************************************************************)
\* the call the second cache returned from last
PeerOp(op, name, save) == [peer EXCEPT !.op = op, !.name = name, !.save = save]

\* RepoCache.Load on the second cache
PeerLoad ==
    /\ peer.op # "panic"
    /\ \E readOK \in BOOLEAN :
        IF ~readOK \/ ~file.exists \/ ~file.decodable
        THEN peer' = PeerOp("LoadErr", << >>, "none")
        ELSE IF file.reposNull
        THEN peer' = [PeerOp("Load", << >>, "none") EXCEPT !.isNil = FALSE]
        ELSE LET cfg == DecodeConfig(file.Repos)
                 ins == LoadInserted(cfg)
             IN  peer' = [PeerOp("Load", << >>, "none") EXCEPT
                            !.isNil = FALSE,
                            !.repos = [n \in DOMAIN peer.repos \cup ins |->
                                         IF n \in ins THEN LoadedRepo(cfg, n)
                                         ELSE peer.repos[n]]]
    /\ UNCHANGED cacheVars
    /\ UNCHANGED <<fsys, lastSync, det, walk>>

\* RepoCache.Add on the second cache
PeerAdd(name, repo) ==
    /\ peer.op # "panic"
    /\ IF AddExists(peer.repos, name)
       THEN peer' = PeerOp("AddExists", name, "none") /\ file' = file
       ELSE IF peer.isNil
       THEN peer' = PeerOp("panic", name, "none") /\ file' = file
       ELSE LET m == MapPut(peer.repos, name, MkCachedRepo(name, repo)) IN
            \E saveOK \in BOOLEAN :
              IF saveOK
              THEN /\ peer' = [PeerOp("Add", name, "ok") EXCEPT !.repos = m]
                   /\ file' = SavedFile(m)
              ELSE /\ peer' = [PeerOp("Add", name, "failed") EXCEPT
                                  !.repos = AddRollback(m, name)]
                   /\ file' = file
    /\ UNCHANGED <<reposIsNil, repos, crashed, lastOp, added>>
    /\ UNCHANGED <<fsys, lastSync, det, walk>>

\* RepoCache.Remove on the second cache
PeerRemove(name) ==
    /\ peer.op # "panic"
    /\ IF name \in DOMAIN peer.repos
       THEN LET r == peer.repos[name]
                m == MapDel(peer.repos, name)
            IN  \E saveOK \in BOOLEAN :
                  IF saveOK
                  THEN /\ peer' = [PeerOp("Remove", name, "ok") EXCEPT !.repos = m]
                       /\ file' = SavedFile(m)
                  ELSE /\ peer' = [PeerOp("Remove", name, "failed") EXCEPT
                                      !.repos = RemoveRollback(m, name, r)]
                       /\ file' = file
       ELSE peer' = PeerOp("Remove", name, "none") /\ file' = file
    /\ UNCHANGED <<reposIsNil, repos, crashed, lastOp, added>>
    /\ UNCHANGED <<fsys, lastSync, det, walk>>

(***************************************************************************)
(* Git synchronisation.                                                    *)
(***************************************************************************)
\* Paths and argument vectors are sequences of words; an absolute path
\* starts with the root.
Root == <<"/">>

\* the working directory of the process that calls Sync
ProcCwd == Root

\* the directory given to Sync, spelled absolute and relative to ProcCwd
AbsDir == <<"/", "c", "r">>
RelDir == <<"c", "r">>
SyncDirs == {AbsDir, RelDir}

IsAbs(p) == p # << >> /\ Head(p) = "/"

\* the path p, as a process with working directory cwd resolves it
ResolvePath(cwd, p) == IF IsAbs(p) THEN p ELSE cwd \o p

\* the places of the file system the model follows: the directory given to
\* Sync, and the place its relative spelling names from inside that directory
TargetPath == ResolvePath(ProcCwd, RelDir)
NestedPath == ResolvePath(TargetPath, RelDir)
FsPaths == {TargetPath, NestedPath}

\* what a place holds: nothing, an empty directory, a directory that is not
\* a working tree, a working tree behind the remote, an up-to-date one
Kinds == {"missing", "empty", "junk", "stale", "fresh"}

IsTree(fs, p) == fs[p] \in {"stale", "fresh"}

\* NestedPath lies inside TargetPath
FsStates ==
    {fs \in [FsPaths -> Kinds] :
        fs[NestedPath] # "missing" => fs[TargetPath] \in {"junk", "stale", "fresh"}}

NoTree == [p \in FsPaths |-> "missing"]

\* the remote a GitRepo was detected with (GitRepo.Remote)
RemoteURL == <<"f:", "a">>

\* result of GitClient.Exec: the *GitError returned ("nil" or "GitError"),
\* the file system after the command
Failed(fs) == [gerr |-> "GitError", fs |-> fs]
Done(fs) == [gerr |-> "nil", fs |-> fs]

\* a directory that receives an entry is not empty any more
WithEntry(kind) == IF kind = "empty" THEN "junk" ELSE kind

\* the git program run in directory cwd.  env.up: the remote answers;
\* log needs a working tree, pull a working tree and the remote, clone the
\* remote and a destination that is missing or an empty directory.
GitRun(args, cwd, fs, env) ==
    IF args[1] = <<"log">>
    THEN IF IsTree(fs, cwd) THEN Done(fs) ELSE Failed(fs)
    ELSE IF args[1] = <<"pull">>
    THEN IF IsTree(fs, cwd) /\ env.up
         THEN Done([fs EXCEPT ![cwd] = "fresh"])
         ELSE Failed(fs)
    ELSE IF args[1] = <<"clone">>
    THEN LET dest == ResolvePath(cwd, args[3]) IN
         IF env.up /\ fs[dest] \in {"missing", "empty"}
         THEN Done([p \in FsPaths |->
                       IF p = dest THEN "fresh"
                       ELSE IF p = TargetPath THEN WithEntry(fs[p])
                       ELSE fs[p]])
         ELSE Failed(fs)
    ELSE Failed(fs)

\* GitCmd.Exec: runs the git program with the arguments.  env.broken: the
\* program could not be run or was interrupted.  "-C <dir>" makes git change
\* to <dir> first, and git gives up when it cannot.
GitCmdExec(argv, fs, env) ==
    IF env.broken THEN Failed(fs)
    ELSE IF argv[1] = <<"-C">>
    THEN LET cwd == ResolvePath(ProcCwd, argv[2]) IN
         IF fs[cwd] = "missing" THEN Failed(fs)
         ELSE GitRun(SubSeq(argv, 3, Len(argv)), cwd, fs, env)
    ELSE GitRun(argv, ProcCwd, fs, env)

\* GitWorkTree.Exec: the arguments the client receives
GitWorkTreeArgv(g, args) ==
    IF g.GitDir # << >>
    THEN << <<"--work-tree=">> \o g.WorkDir, <<"--git-dir=">> \o g.GitDir >> \o args
    ELSE << <<"-C">>, g.WorkDir >> \o args

GitWorkTreeExec(g, args, fs, env) == GitCmdExec(GitWorkTreeArgv(g, args), fs, env)

\* A value of the interface type error: its dynamic type and the pointer it
\* holds.  The nil error has no dynamic type.
NilError == [dyn |-> "none", ptr |-> "nil"]

\* the conversion of a *GitError to error, as done by a return statement of
\* a function whose result type is error: the value has the dynamic type
\* *GitError whatever the pointer, so it never compares equal to nil
AsError(gerr) == [dyn |-> "*GitError", ptr |-> gerr]

\* err == nil, for err of type error
ErrIsNil(e) == e.dyn = "none"

\* result of a method of GitWorkTree: the error returned, the file system
\* after it, the commands sent to the client
Returned(e, fs, cmds) == [err |-> e, fs |-> fs, cmds |-> cmds]

LatestCommitArgs == << <<"log">>, <<"-1">>, <<"--format=%H">> >>

\* GitWorkTree.LatestCommit: return g.Exec("log", "-1", "--format=%H")
LatestCommit(g, fs, env) ==
    LET r == GitWorkTreeExec(g, LatestCommitArgs, fs, env)
    IN  Returned(AsError(r.gerr), r.fs, << GitWorkTreeArgv(g, LatestCommitArgs) >>)

PullArgs == << <<"pull">> >>

\* GitWorkTree.Pull: _, err := g.Exec("pull"); return err
Pull(g, fs, env) ==
    LET r == GitWorkTreeExec(g, PullArgs, fs, env)
    IN  Returned(AsError(r.gerr), r.fs, << GitWorkTreeArgv(g, PullArgs) >>)

\* GitWorkTree.PullAndVerify
PullAndVerify(g, fs, envPull, envVerify) ==
    LET p == Pull(g, fs, envPull) IN
    IF ~ErrIsNil(p.err) THEN p
    ELSE LET v == LatestCommit(g, p.fs, envVerify)
         IN  Returned(v.err, v.fs, p.cmds \o v.cmds)

CloneArgs(g, remote) == << <<"clone">>, remote, g.WorkDir >>

\* GitWorkTree.Clone: _, err := g.Exec("clone", remote, g.WorkDir); return err
Clone(g, remote, fs, env) ==
    LET r == GitWorkTreeExec(g, CloneArgs(g, remote), fs, env)
    IN  Returned(AsError(r.gerr), r.fs, << GitWorkTreeArgv(g, CloneArgs(g, remote)) >>)

\* os.RemoveAll(path), its error ignored: the directory is removed; or the
\* removal fails and nothing, or only the content, or a part of the content
\* is gone
RmOutcomes == {"removed", "kept", "emptied", "partial"}

RemoveAll(path, fs, outcome) ==
    LET p == ResolvePath(ProcCwd, path) IN
    IF fs[p] = "missing" \/ outcome = "kept" THEN fs
    ELSE IF outcome = "removed" THEN [q \in FsPaths |-> "missing"]
    ELSE IF outcome = "emptied"
    THEN [q \in FsPaths |-> IF q = p THEN "empty" ELSE "missing"]
    ELSE [fs EXCEPT ![p] = IF fs[p] = "empty" THEN "empty" ELSE "junk"]

IsCmd(argv, word) == \E i \in 1..Len(argv) : argv[i] = <<word>>

\* what became of the command `word` of a call: not sent, failed, succeeded
Outcome(cmds, word, gerr) ==
    IF \A i \in 1..Len(cmds) : ~IsCmd(cmds[i], word) THEN "skip"
    ELSE IF gerr = "nil" THEN "ok" ELSE "fail"

NoSync ==
    [dir |-> << >>, before |-> "missing", probe |-> "skip", pull |-> "skip",
     removal |-> "skip", clone |-> "skip", up |-> FALSE, broken |-> {},
     ret |-> "none", cmds |-> << >>]

\* the steps of GitRepo.Sync in env, a function from the calls "probe",
\* "pull", "verify" and "clone" to the environment each one runs in; rm is
\* what the removal of the directory achieves
SyncProbe(git, fs, env) == LatestCommit(git, fs, env["probe"])

\* if err == nil { _, err = git.PullAndVerify() }
SyncUpdate(git, s1, env) ==
    IF ErrIsNil(s1.err)
    THEN LET pv == PullAndVerify(git, s1.fs, env["pull"], env["verify"])
         IN  Returned(pv.err, pv.fs, s1.cmds \o pv.cmds)
    ELSE s1

\* if err != nil { os.RemoveAll(git.WorkDir); err = git.Clone(r.Remote) }
SyncReclone(git, s2, fs2, env) ==
    IF ~ErrIsNil(s2.err)
    THEN LET c == Clone(git, RemoteURL, fs2, env["clone"])
         IN  Returned(c.err, c.fs, s2.cmds \o c.cmds)
    ELSE s2

\* the commands of one call for which the git program cannot be run
GitCalls == {"probe", "pull", "verify", "clone"}

\* GitRepo.Sync(dir).  up: the remote answers during the call; broken: the
\* commands for which the git program cannot be run; rm: what the removal of
\* the directory achieves.
Sync(dir) ==
    \E up \in BOOLEAN, broken \in SUBSET GitCalls, rm \in RmOutcomes :
      \E git \in {[Client |-> "git", WorkDir |-> dir, GitDir |-> << >>]},
         env \in {[c \in GitCalls |-> [up |-> up, broken |-> c \in broken]]} :
        \E s1 \in {SyncProbe(git, fsys, env)} :
          \E s2 \in {SyncUpdate(git, s1, env)} :
            \E fs2 \in {RemoveAll(git.WorkDir, s2.fs, rm)} :
              \E s3 \in {SyncReclone(git, s2, fs2, env)} :
                /\ fsys' = s3.fs
                /\ lastSync' =
                     [dir |-> dir,
                      before |-> fsys[TargetPath],
                      probe |-> Outcome(s1.cmds, "log", s1.err.ptr),
                      pull |-> Outcome(s2.cmds, "pull", s2.err.ptr),
                      removal |-> IF ErrIsNil(s2.err) THEN "skip"
                                  ELSE IF fs2[TargetPath] = "missing" THEN "removed"
                                  ELSE "left",
                      clone |-> Outcome(s3.cmds, "clone", s3.err.ptr),
                      up |-> up,
                      broken |-> broken,
                      ret |-> IF ErrIsNil(s3.err) THEN "nil" ELSE "err",
                      cmds |-> s3.cmds]
                /\ UNCHANGED outsideSync

\* the remote receives a commit: the up-to-date working trees fall behind
RemotePush ==
    /\ \E p \in FsPaths : fsys[p] = "fresh"
    /\ fsys' = [p \in FsPaths |-> IF fsys[p] = "fresh" THEN "stale" ELSE fsys[p]]
    /\ lastSync' = NoSync
    /\ UNCHANGED outsideSync

SyncInit ==
    /\ reposIsNil = TRUE
    /\ repos = EmptyMap
    /\ file = NoFile
    /\ crashed = FALSE
    /\ lastOp = NoOp
    /\ added = EmptyMap
    /\ fsys \in FsStates
    /\ lastSync = NoSync
    /\ peer = NoPeer
    /\ det = NoDetect
    /\ walk = NoWalk

SyncNext ==
    \/ \E dir \in SyncDirs : Sync(dir)
    \/ RemotePush

SyncSpec == SyncInit /\ [][SyncNext]_vars

(***************************************************************************)
(* Git URL detection.  Strings are sequences of bytes: 97 = 'a',           *)
(* 47 = '/', 58 = ':', 64 = '@', 46 = '.'.                                 *)
(***************************************************************************)
\* strings.Index(s, c) for a one-byte c: the index of the first c, from 0,
\* or -1
Index(s, c) ==
    IF \E i \in 1..Len(s) : s[i] = c
    THEN (CHOOSE i \in 1..Len(s) : s[i] = c /\ \A j \in 1..(i - 1) : s[j] # c) - 1
    ELSE -1

\* s[from:to] of Go
Slice(s, from, to) == SubSeq(s, from + 1, to)

SchemeSep == <<58, 47, 47>>
HttpPrefix == <<104, 116, 116, 112>> \o SchemeSep
HttpsPrefix == <<104, 116, 116, 112, 115>> \o SchemeSep
FilePrefix == <<102, 105, 108, 101>> \o SchemeSep

\* r.Client.Exec("ls-remote", remote) returns no error: the remote is among
\* those the oracle accepts
LsRemoteOK(remote, accepted) == remote \in accepted

DetectStopsAtEnd(prefix, base, accepted) == FALSE

\* detectPrefixed, line 190: the probe of prefix+base succeeded
DetectAccepts(prefix, base, accepted) == LsRemoteOK(prefix \o base, accepted)

\* GitRepo.detectPrefixed: the loop, from the base accumulated so far and
\* the path left; probes are the remotes handed to ls-remote, in order
RECURSIVE detectLoop(_, _, _, _, _)
detectLoop(prefix, base, path, accepted, probes) ==
    IF path = << >>
    THEN [err |-> "ErrInvalidGitURL", probes |-> probes]
    ELSE LET pos == Index(path, 47) IN
         IF pos = 0
         THEN detectLoop(prefix, base \o <<47>>, Slice(path, 1, Len(path)),
                         accepted, probes)
         ELSE LET b == IF pos > 0 THEN base \o Slice(path, 0, pos) ELSE base \o path
                  rest == IF pos > 0 THEN Slice(path, pos, Len(path)) ELSE << >>
                  sent == Append(probes, prefix \o b)
              IN  IF DetectAccepts(prefix, b, accepted)
                  THEN [err |-> "nil", probes |-> sent,
                        RepoName |-> b, Path |-> rest, Remote |-> prefix \o b]
                  ELSE detectLoop(prefix, b, rest, accepted, sent)

detectPrefixed(prefix, path, accepted) == detectLoop(prefix, << >>, path, accepted, << >>)

DetectedNoPrefix(r, d) ==
    IF d.err = "nil"
    THEN [r EXCEPT !.RepoName = d.RepoName, !.Path = d.Path, !.Remote = d.RepoName]
    ELSE r

\* the fields of r after detectPrefixed returned d
Detected(r, d) ==
    IF d.err = "nil"
    THEN [r EXCEPT !.RepoName = d.RepoName, !.Path = d.Path, !.Remote = d.Remote]
    ELSE r

IsScpAnyAt(atPos, colonPos, slashPos) ==
    atPos >= 0 /\ atPos < colonPos /\ (slashPos < 0 \/ colonPos < slashPos)

\* Detect, line 140: user@host:repo/path
IsScp(atPos, colonPos, slashPos) ==
    atPos > 0 /\ atPos < colonPos /\ (slashPos < 0 \/ colonPos < slashPos)

\* Detect, lines 146-147: protocol://host/repo/path
IsProtocol(url, colonPos, slashPos) ==
    /\ colonPos > 0
    /\ colonPos < slashPos
    /\ StartsWith(Slice(url, colonPos + 1, Len(url)), <<47, 47>>)

\* Detect, lines 153-155: ./path, ../path, /path
IsLocal(url) ==
    \/ StartsWith(url, <<46, 47>>)
    \/ StartsWith(url, <<46, 46, 47>>)
    \/ StartsWith(url, <<47>>)

\* the result of GitRepo.Detect on r with the oracle accepted: the fields of
\* r, the error returned, the shape taken, the prefix and path handed to the
\* detectPrefixed that ended the call, the probes of the whole call
DetectResult(r, err, shape, prefix, path, probes) ==
    [r |-> r, err |-> err, shape |-> shape, prefix |-> prefix, path |-> path,
     probes |-> probes]

DetectRun(r, accepted) ==
    LET url == r.URL
        slashPos == Index(url, 47)
        colonPos == Index(url, 58)
        atPos == Index(url, 64)
    IN  IF IsScp(atPos, colonPos, slashPos)
        THEN LET prefix == Slice(url, 0, colonPos + 1)
                 path == Slice(url, colonPos + 1, Len(url))
                 d == detectPrefixed(prefix, path, accepted)
             IN  DetectResult(Detected([r EXCEPT !.Protocol = <<115, 115, 104>>], d),
                              d.err, "scp", prefix, path, d.probes)
        ELSE IF IsProtocol(url, colonPos, slashPos)
        THEN LET prefix == Slice(url, 0, colonPos + 3)
                 path == Slice(url, colonPos + 3, Len(url))
                 d == detectPrefixed(prefix, path, accepted)
             IN  DetectResult(Detected([r EXCEPT !.Protocol = Slice(url, 0, colonPos)], d),
                              d.err, "protocol", prefix, path, d.probes)
        ELSE IF IsLocal(url)
        THEN LET d == detectPrefixed(FilePrefix, url, accepted)
             IN  DetectResult(Detected([r EXCEPT !.Protocol = <<102, 105, 108, 101>>], d),
                              d.err, "local", FilePrefix, url, d.probes)
        ELSE LET d1 == detectPrefixed(HttpPrefix, url, accepted)
                 d2 == detectPrefixed(HttpsPrefix, url, accepted)
                 d3 == detectPrefixed(FilePrefix, url, accepted)
             IN  IF d1.err = "nil"
                 THEN DetectResult([Detected(r, d1) EXCEPT !.Protocol = <<104, 116, 116, 112>>],
                                   "nil", "bare", HttpPrefix, url, d1.probes)
                 ELSE IF d2.err = "nil"
                 THEN DetectResult([Detected(r, d2) EXCEPT !.Protocol = <<104, 116, 116, 112, 115>>],
                                   "nil", "bare", HttpsPrefix, url, d1.probes \o d2.probes)
                 ELSE IF d3.err = "nil"
                 THEN DetectResult([Detected(r, d3) EXCEPT !.Protocol = <<102, 105, 108, 101>>],
                                   "nil", "bare", FilePrefix, url,
                                   d1.probes \o d2.probes \o d3.probes)
                 ELSE DetectResult(r, "ErrInvalidGitURL", "bare", FilePrefix, url,
                                   d1.probes \o d2.probes \o d3.probes)

\* the paths given to detection: the strings over 'a' and '/' of at most
\* MaxPath bytes
RECURSIVE PathsOfLen(_)
PathsOfLen(n) ==
    IF n = 0 THEN {<< >>}
    ELSE {Append(p, c) : p \in PathsOfLen(n - 1), c \in {97, 47}}

DetectPaths == UNION {PathsOfLen(n) : n \in 0..MaxPath}

\* what stands before the path: "a@a:", "@a:", "a://", "://", "a:/", "",
\* ".", "..", "a:", "a@"
DetectHeads ==
    {<<97, 64, 97, 58>>, <<64, 97, 58>>, <<97, 58, 47, 47>>, <<58, 47, 47>>,
     <<97, 58, 47>>, << >>, <<46>>, <<46, 46>>, <<97, 58>>, <<97, 64>>}

DetectURLs == {h \o p : h \in DetectHeads, p \in DetectPaths}

\* &GitRepo{URL: url, Client: client}
NewGitRepo(url) ==
    [URL |-> url, Protocol |-> << >>, RepoName |-> << >>, Remote |-> << >>,
     Path |-> << >>]

\* every remote Detect can ask the oracle about for the URL
ProbesOf(url) ==
    LET sent == DetectRun(NewGitRepo(url), {}).probes
    IN  {sent[i] : i \in 1..Len(sent)}

\* GitRepo.Detect
Detect ==
    /\ det.call = "new"
    /\ IF det.r.URL = << >>
       THEN det' = [det EXCEPT !.call = "panic"]
       ELSE LET res == DetectRun(det.r, det.accepted)
            IN  det' = [call |-> "done", url |-> det.url, accepted |-> det.accepted,
                        r |-> res.r, err |-> res.err, shape |-> res.shape,
                        prefix |-> res.prefix, path |-> res.path, probes |-> res.probes]
    /\ UNCHANGED <<reposIsNil, repos, file, crashed, lastOp, added, fsys, lastSync,
                   peer, walk>>

(***************************************************************************)
(* RepoWalker.  An entry is named by its path from the base path of the    *)
(* repository, a sequence of names; names are numbers, and a directory     *)
(* hands out its entries in ascending order of name.                       *)
(***************************************************************************)
\* the number of filters registered with Use
NumFilters == 2

\* repo.BasePath()
WalkRoot == << >>

Parent(e) == SubSeq(e, 1, Len(e) - 1)

\* the entries Readdir hands out for the directory, in order
Children(tree, dir) ==
    LET n == Cardinality({e \in tree : Parent(e) = dir /\ e # dir})
    IN  [i \in 1..n |-> Append(dir, i)]

\* the trees with one more entry than t: a new last entry in a directory
Grow(t) ==
    {t \cup {Append(dir, Len(Children(t, dir)) + 1)} : dir \in t \cup {WalkRoot}}

\* the trees of at most n entries
RECURSIVE TreesUpTo(_)
TreesUpTo(n) ==
    IF n = 0 THEN {{}}
    ELSE TreesUpTo(n - 1) \cup UNION {Grow(t) : t \in TreesUpTo(n - 1)}

\* fi.IsDir(): the directories are the entries that hold entries
IsDir(w, e) == e = WalkRoot \/ Children(w.tree, e) # << >>

\* what can fail during a walk: opening a directory, a Readdir that should
\* hand out an entry or report the end of a directory, a filter, the callback
FaultPoints(tree) ==
    {<<"open", 0, e>> : e \in tree \cup {WalkRoot}}
      \cup {<<"read", 0, e>> : e \in tree}
      \cup {<<"eof", 0, e>> : e \in tree \cup {WalkRoot}}
      \cup {<<"filter", k, e>> : k \in 1..NumFilters, e \in tree}
      \cup {<<"call", 0, e>> : e \in tree}

\* the entries a filter may reject
RejectPoints(tree) == {<<k, e>> : k \in 1..NumFilters, e \in tree}

AtMostOne(S) == {{}} \cup {{x} : x \in S}

\* one step of the walk, as it is seen from outside
Event(ev, k, at) == [ev |-> ev, k |-> k, at |-> at]

\* the walk so far: what happened, and the error being returned
Logged(st, ev, k, at) == [st EXCEPT !.log = Append(st.log, Event(ev, k, at))]

Raised(st, point) ==
    [log |-> Append(st.log, Event("error", point[2], point[3])), err |-> point]

SkipNever(rejected) == FALSE

\* visit, lines 80-87: the entry is skipped when a filter did not accept it
Skip(rejected) == rejected

\* visit, lines 75-84: the filters from the k-th on, for the entry e
RECURSIVE RunFilters(_, _, _, _)
RunFilters(w, e, k, st) ==
    IF k > NumFilters THEN [st |-> st, rejected |-> FALSE]
    ELSE IF <<"filter", k, e>> \in w.faults
    THEN [st |-> Raised(Logged(st, "filter", k, e), <<"filter", k, e>>), rejected |-> FALSE]
    ELSE IF <<k, e>> \in w.rejects
    THEN [st |-> Logged(st, "reject", k, e), rejected |-> TRUE]
    ELSE RunFilters(w, e, k + 1, Logged(st, "filter", k, e))

DescendNever(w) == FALSE

DescendAlways(w) == TRUE

\* visit, lines 93-100: the directory is entered at once, or kept for later
Descend(w) == ~w.BreadthFirst

CloseUnlessError(st, dir) == IF st.err = <<"nil">> THEN Logged(st, "close", 0, dir) ELSE st

\* visit, line 55: defer f.Close()
Close(st, dir) == Logged(st, "close", 0, dir)

RECURSIVE visit(_, _, _)
RECURSIVE VisitEntries(_, _, _, _, _)
RECURSIVE VisitDirs(_, _, _, _, _)

\* RepoWalker.visit(basePath, name, repo)
visit(w, basePath, st) ==
    IF <<"open", 0, basePath>> \in w.faults
    THEN Raised(Logged(st, "opening", 0, basePath), <<"open", 0, basePath>>)
    ELSE Close(VisitEntries(w, basePath, 1, << >>, Logged(st, "open", 0, basePath)),
               basePath)

\* visit, lines 57-102: the loop from the i-th Readdir on, dirs being the
\* directories kept for later
VisitEntries(w, basePath, i, dirs, st) ==
    LET entries == Children(w.tree, basePath) IN
    IF i > Len(entries)
    THEN IF <<"eof", 0, basePath>> \in w.faults
         THEN Raised(st, <<"eof", 0, basePath>>)
         ELSE VisitDirs(w, basePath, dirs, 1, st)
    ELSE LET e == entries[i] IN
         IF <<"read", 0, e>> \in w.faults
         THEN Raised(st, <<"read", 0, e>>)
         ELSE LET f == RunFilters(w, e, 1, Logged(st, "read", 0, e)) IN
              IF f.st.err # <<"nil">> THEN f.st
              ELSE IF Skip(f.rejected) THEN VisitEntries(w, basePath, i + 1, dirs, f.st)
              ELSE LET called == Logged(f.st, "call", 0, e) IN
                   IF <<"call", 0, e>> \in w.faults
                   THEN Raised(called, <<"call", 0, e>>)
                   ELSE IF ~IsDir(w, e)
                   THEN VisitEntries(w, basePath, i + 1, dirs, called)
                   ELSE IF Descend(w)
                   THEN LET sub == visit(w, e, called) IN
                        IF sub.err # <<"nil">> THEN sub
                        ELSE VisitEntries(w, basePath, i + 1, dirs, sub)
                   ELSE VisitEntries(w, basePath, i + 1, Append(dirs, e[Len(e)]), called)

\* visit, lines 103-108: the directories kept for later, from the j-th on
VisitDirs(w, basePath, dirs, j, st) ==
    IF j > Len(dirs) THEN st
    ELSE LET sub == visit(w, Append(basePath, dirs[j]), st) IN
         IF sub.err # <<"nil">> THEN sub
         ELSE VisitDirs(w, basePath, dirs, j + 1, sub)

\* RepoWalker.Visit(name, repo)
Visit ==
    /\ walk.call = "new"
    /\ LET end == visit(walk, WalkRoot, [log |-> << >>, err |-> <<"nil">>])
       IN  walk' = [walk EXCEPT !.call = "done", !.log = end.log, !.err = end.err]
    /\ UNCHANGED <<reposIsNil, repos, file, crashed, lastOp, added, fsys, lastSync,
                   peer, det>>

(***************************************************************************)
(* Specifications.                                                         *)
(***************************************************************************)
Init ==
    /\ reposIsNil = TRUE
    /\ repos = EmptyMap
    /\ file \in SeedFiles
    /\ crashed = FALSE
    /\ lastOp = NoOp
    /\ added = EmptyMap
    /\ fsys = NoTree
    /\ lastSync = NoSync
    /\ peer = NoPeer
    /\ det = NoDetect
    /\ walk = NoWalk

Next ==
    \/ NewRepoCache
    \/ Load
    \/ \E name \in Names, repo \in GitRepos : Add(name, repo)
    \/ \E name \in Names : Remove(name)
    \/ RepoNames

Spec == Init /\ [][Next]_vars

\* the repository both caches add, under the names "a" and "b"
SharedRepo == MkGitRepo(StrAt(1))

\* two caches over a base directory that holds an empty config or none
SharedInit ==
    /\ reposIsNil = TRUE
    /\ repos = EmptyMap
    /\ file \in {NoFile, ConfigFile(EmptyMap)}
    /\ crashed = FALSE
    /\ lastOp = NoOp
    /\ added = EmptyMap
    /\ fsys = NoTree
    /\ lastSync = NoSync
    /\ peer = NoPeer
    /\ det = NoDetect
    /\ walk = NoWalk

SharedNext ==
    \/ Load
    \/ \E name \in SeedNames : Add(name, SharedRepo)
    \/ \E name \in SeedNames : Remove(name)
    \/ PeerLoad
    \/ \E name \in SeedNames : PeerAdd(name, SharedRepo)
    \/ \E name \in SeedNames : PeerRemove(name)

SharedSpec == SharedInit /\ [][SharedNext]_vars

\* a GitRepo with a URL, and a client whose ls-remote accepts some of the
\* remotes Detect can ask about
DetectInit ==
    /\ reposIsNil = TRUE
    /\ repos = EmptyMap
    /\ file = NoFile
    /\ crashed = FALSE
    /\ lastOp = NoOp
    /\ added = EmptyMap
    /\ fsys = NoTree
    /\ lastSync = NoSync
    /\ peer = NoPeer
    /\ walk = NoWalk
    /\ \E url \in DetectURLs : \E accepted \in SUBSET ProbesOf(url) :
          det = [call |-> "new", url |-> url, accepted |-> accepted,
                 r |-> NewGitRepo(url)]

DetectNext == Detect

DetectSpec == DetectInit /\ [][DetectNext]_vars

\* a walker with its filters and its order, a tree to walk, the entries the
\* filters reject and what fails
WalkInit ==
    /\ reposIsNil = TRUE
    /\ repos = EmptyMap
    /\ file = NoFile
    /\ crashed = FALSE
    /\ lastOp = NoOp
    /\ added = EmptyMap
    /\ fsys = NoTree
    /\ lastSync = NoSync
    /\ peer = NoPeer
    /\ det = NoDetect
    /\ \E tree \in TreesUpTo(MaxNodes), bf \in BOOLEAN :
          \E rejects \in AtMostOne(RejectPoints(tree)),
             faults \in AtMostOne(FaultPoints(tree)) :
              walk = [call |-> "new", tree |-> tree,
                      BreadthFirst |-> bf, rejects |-> rejects, faults |-> faults,
                      log |-> << >>, err |-> <<"nil">>]

WalkNext == Visit

WalkSpec == WalkInit /\ [][WalkNext]_vars

(***************************************************************************)
(* Properties of RepoCache.Add and RepoCache.Remove.                       *)
(***************************************************************************)
\* C1: when the Save of Add(name, remote) fails for a name that is not in
\* the cache, Add returns the error of Save and no entry, and the in-memory
\* mapping is what it was before the call, so Find(name) is absent.
C1_AddRollsBackOnSaveFailure ==
    [][(lastOp'.op = "Add" /\ lastOp'.save = "failed") =>
          /\ lastOp'.name \notin DOMAIN repos
          /\ lastOp'.err = "SaveErr"
          /\ lastOp'.ret = {}
          /\ repos' = repos
          /\ reposIsNil' = reposIsNil
          /\ lastOp'.name \notin DOMAIN repos']_vars

\* an Add whose Save failed, on a cache that holds another entry
C1_Witness ==
    /\ lastOp.op = "Add"
    /\ lastOp.save = "failed"
    /\ repos # EmptyMap
    /\ Find(lastOp.name) = {}

\* C2: Add on a name that is in the cache returns ErrRepoAlreadyExists and
\* the existing entry, does not Save, and leaves the mapping and the config
\* file as they were.
C2_AddDuplicateRejected ==
    [][(lastOp'.op = "Add" /\ lastOp'.name \in DOMAIN repos) =>
          /\ lastOp'.err = "ErrRepoAlreadyExists"
          /\ lastOp'.ret = {repos[lastOp'.name]}
          /\ lastOp'.save = "none"
          /\ repos' = repos
          /\ file' = file]_vars

\* a rejected Add whose repository differs from the one held under the name
C2_Witness ==
    /\ lastOp.op = "Add"
    /\ lastOp.err = "ErrRepoAlreadyExists"
    /\ lastOp.name \in DOMAIN repos
    /\ \A r \in lastOp.arg : repos[lastOp.name].Remote.URL # r.URL

\* C3: Remove of an absent name returns no error, changes nothing and does
\* not Save; Remove of a present name deletes the entry and saves, and when
\* that Save fails the same entry is back under the name and the error is
\* returned.
C3_RemoveRollsBack ==
    [][lastOp'.op = "Remove" =>
          IF lastOp'.name \notin DOMAIN repos
          THEN /\ lastOp'.err = "nil"
               /\ lastOp'.save = "none"
               /\ repos' = repos
               /\ reposIsNil' = reposIsNil
               /\ file' = file
          ELSE /\ lastOp'.save \in {"ok", "failed"}
               /\ lastOp'.save = "ok" =>
                     /\ lastOp'.err = "nil"
                     /\ lastOp'.name \notin DOMAIN repos'
                     /\ \A n \in DOMAIN repos \ {lastOp'.name} :
                           n \in DOMAIN repos' /\ repos'[n] = repos[n]
                     /\ file'.exists
                     /\ DOMAIN DecodeConfig(file'.Repos) = DOMAIN repos'
               /\ lastOp'.save = "failed" =>
                     /\ lastOp'.err = "SaveErr"
                     /\ repos' = repos
                     /\ file' = file]_vars

\* a Remove of a present name whose Save failed
C3_Witness ==
    /\ lastOp.op = "Remove"
    /\ lastOp.save = "failed"
    /\ lastOp.name \in DOMAIN repos

(***************************************************************************)
(* Properties of GitRepo.Sync.                                             *)
(***************************************************************************)
IsCloneCmd(argv) == IsCmd(argv, "clone")

\* the git program can be run for every command of the call and the remote
\* answers: every command the call sends succeeds if the directory allows it
Sound == lastSync.up /\ lastSync.broken = {}

\* C4: when the probe succeeds, and the pull and the verifying re-read
\* succeed as well, Sync returns no error, does not remove the directory and
\* issues no clone: the working tree is updated where it stands.
C4_SyncPullsInPlace ==
    (lastSync.probe = "ok" /\ Sound) =>
        /\ lastSync.ret = "nil"
        /\ lastSync.removal = "skip"
        /\ lastSync.clone = "skip"
        /\ \A i \in 1..Len(lastSync.cmds) : ~IsCloneCmd(lastSync.cmds[i])
        /\ fsys[TargetPath] = "fresh"

\* C5: when the probe fails on a directory that is no working tree, Sync
\* removes the directory and issues one clone of Remote through the
\* work-tree-bound client ("-C <dir>", <dir> as the clone target), and with a
\* reachable remote it ends with a fresh working tree in the directory and
\* no error.
C5_SyncReclonesFresh ==
    (/\ lastSync.probe = "fail"
     /\ lastSync.before \in {"missing", "empty", "junk"}
     /\ lastSync.removal = "removed"
     /\ Sound) =>
        /\ Len(SelectSeq(lastSync.cmds, IsCloneCmd)) = 1
        /\ lastSync.cmds[Len(lastSync.cmds)] =
              << <<"-C">>, lastSync.dir, <<"clone">>, RemoteURL, lastSync.dir >>
        /\ lastSync.ret = "nil"
        /\ fsys[TargetPath] = "fresh"

\* C6: Sync returns nil exactly when the target directory holds an
\* up-to-date working tree at the end of the call; in particular it returns
\* no error after an update that succeeded.
C6_SyncNilIffUpToDate ==
    lastSync.ret # "none" =>
        /\ lastSync.ret = "nil" => fsys[TargetPath] = "fresh"
        /\ (/\ fsys[TargetPath] = "fresh"
            /\ lastSync.before # "fresh"
            /\ "ok" \in {lastSync.pull, lastSync.clone}) => lastSync.ret = "nil"

(***************************************************************************)
(* Properties of RepoCache.Load and of the persisted form.                 *)
(***************************************************************************)
PersistedFields(r) ==
    <<r.URL, r.Protocol, r.RepoName, r.Remote, r.Path>>

\* C7: after a successful Add(name, r), Load on a new RepoCache of the same
\* base directory makes Find(name) return a CachedRepo of the same Name and
\* LocalDir whose remote has the persisted fields of r and no client.
C7_AddThenLoadRoundTrip ==
    (lastOp.op = "Load" /\ lastOp.fresh /\ lastOp.err \in {"nil", "Aggregated"}) =>
        \A n \in DOMAIN added :
            /\ n \in DOMAIN repos
            /\ repos[n].Name = added[n].Name
            /\ repos[n].LocalDir = added[n].LocalDir
            /\ PersistedFields(repos[n].Remote) = PersistedFields(added[n].Remote)
            /\ repos[n].Remote.Client = "nil"

\* C8: Load tries every entry of the config: an entry whose factory fails
\* adds its error to the aggregate and is not inserted, an entry of an
\* unregistered type or whose repository is not a RemoteRepo is dropped
\* without error, every other entry is inserted under its name whatever
\* happens to the others.
C8_LoadTriesEveryEntry ==
    [][(/\ lastOp'.op = "Load"
        /\ lastOp'.err \notin {"ReadErr", "DecodeErr"}
        /\ file.exists /\ file.decodable /\ ~file.reposNull) =>
          LET cfg == DecodeConfig(file.Repos)
              failing == {n \in DOMAIN cfg :
                            /\ cfg[n].Type \in {"git", "local"}
                            /\ cfg[n].Opaque.syntax = "garbage"}
              dropped == {n \in DOMAIN cfg :
                            \/ cfg[n].Type \notin {"git", "local"}
                            \/ cfg[n].Type = "local" /\ cfg[n].Opaque.syntax = "object"}
              restored == DOMAIN cfg \ (failing \cup dropped)
          IN  /\ lastOp'.errs = failing
              /\ lastOp'.err = "Aggregated" <=> failing # {}
              /\ \A n \in failing \cup dropped :
                    /\ n \in DOMAIN repos' <=> n \in DOMAIN repos
                    /\ n \in DOMAIN repos => repos'[n] = repos[n]
              /\ \A n \in restored :
                    /\ n \in DOMAIN repos'
                    /\ repos'[n].Name = n
                    /\ repos'[n].Remote = UnmarshalGitRepo(cfg[n].Opaque)
              /\ DOMAIN repos' = DOMAIN repos \cup restored]_vars

\* a Load that reported a factory error and still inserted another entry
C8_Witness ==
    /\ lastOp.op = "Load"
    /\ lastOp.err = "Aggregated"
    /\ lastOp.errs # {}
    /\ \E n \in DOMAIN repos : n \notin lastOp.errs

\* C9: after Load on a base directory without config file the cache holds
\* an initialized empty mapping, and a following Add of a new name inserts
\* and persists the entry without crashing.
C9_LoadWithoutFileThenAdd ==
    [][(lastOp.op = "Load" /\ ~file.exists /\ lastOp'.op = "Add") =>
          /\ ~reposIsNil
          /\ ~crashed'
          /\ lastOp'.save = "ok" => lastOp'.name \in DOMAIN repos']_vars

\* what the config file holds, and what the memory holds, as name -> handle
FileContent ==
    IF file.exists /\ file.decodable /\ ~file.reposNull
    THEN DecodeConfig(file.Repos)
    ELSE EmptyMap

MemContent == [n \in DOMAIN repos |-> CachedRepoPersist(repos[n])]

FileIsMemory ==
    /\ file.exists
    /\ file.decodable
    /\ ~file.reposNull
    /\ MemContent = FileContent

PeerContent == [n \in DOMAIN peer.repos |-> CachedRepoPersist(peer.repos[n])]

\* C11: the cache holds no lock and Save writes the whole view of the cache
\* that saves: every step that changes the config file is a successful Save
\* of one of the two caches and leaves in the file exactly the names that
\* cache holds, so an interleaving of successful Adds loses the entry the
\* other cache added (C11_LostUpdate is such a state).
C11_LastSaveWins ==
    [][file' # file =>
          \/ /\ peer' = peer
             /\ lastOp'.op \in {"Add", "Remove"}
             /\ lastOp'.save = "ok"
             /\ FileContent' = MemContent'
          \/ /\ repos' = repos
             /\ lastOp' = lastOp
             /\ peer'.op \in {"Add", "Remove"}
             /\ peer'.save = "ok"
             /\ FileContent' = PeerContent']_vars

\* both caches returned from a successful Add last, and the name the second
\* cache added is neither in the file nor known to the first cache
C11_LostUpdate ==
    /\ lastOp.op = "Add" /\ lastOp.save = "ok"
    /\ peer.op = "Add" /\ peer.save = "ok"
    /\ peer.name # lastOp.name
    /\ peer.name \in DOMAIN peer.repos
    /\ peer.name \notin DOMAIN repos
    /\ peer.name \notin DOMAIN FileContent
    /\ lastOp.name \in DOMAIN FileContent

\* C12: RepoNames returns the names in the cache, each once, in ascending
\* byte-wise order, whatever the order the map hands them out in.
C12_RepoNamesSorted ==
    lastOp.op = "RepoNames" =>
        /\ Len(lastOp.names) = Cardinality(DOMAIN repos)
        /\ {lastOp.names[i] : i \in 1..Len(lastOp.names)} = DOMAIN repos
        /\ \A i \in 1..Len(lastOp.names) - 1 :
              StrLess(lastOp.names[i], lastOp.names[i + 1])

\* a listing of a cache that holds every name
C12_Witness ==
    /\ lastOp.op = "RepoNames"
    /\ Len(lastOp.names) = MaxNames
    /\ DOMAIN repos = Names

(***************************************************************************)
(* Properties of GitRepo.Detect.                                           *)
(***************************************************************************)
\* the leading parts of path that end with a component: they do not end
\* with '/', and the path ends or goes on with '/' after them
BoundaryCandidates(path) ==
    {SubSeq(path, 1, k) : k \in {j \in 1..Len(path) :
        path[j] # 47 /\ (j = Len(path) \/ path[j + 1] = 47)}}

\* the candidates probed with the prefix during the call, in order
ProbedWith(prefix) ==
    LET IsWith(q) == StartsWith(q, prefix)
        with == SelectSeq(det.probes, IsWith)
    IN  [i \in 1..Len(with) |-> Drop(with[i], Len(prefix))]

\* the prefixes the call handed to detectPrefixed
PrefixesTried ==
    IF det.shape = "bare"
    THEN {q \in {HttpPrefix, HttpsPrefix, FilePrefix} : ProbedWith(q) # << >>}
    ELSE {det.prefix}

\* C13: for a prefix and a remaining path, the candidates probed are leading
\* parts of the path that end at a component boundary, in strictly
\* increasing length, none but the last is accepted and none is skipped;
\* when one is accepted, RepoName is that candidate, Remote is the prefix
\* followed by it, Path is the rest of the path, and nothing longer is probed.
C13_ShortestAcceptedCandidate ==
    det.call = "done" =>
        /\ \A q \in PrefixesTried :
              LET c == ProbedWith(q) IN
              /\ \A i \in 1..Len(c) : c[i] \in BoundaryCandidates(det.path)
              /\ \A i \in 1..Len(c) - 1 :
                    /\ Len(c[i]) < Len(c[i + 1])
                    /\ ~LsRemoteOK(q \o c[i], det.accepted)
              /\ \A b \in BoundaryCandidates(det.path) :
                    (\A i \in 1..Len(c) : c[i] # b) =>
                        \E i \in 1..Len(c) :
                            /\ Len(c[i]) < Len(b)
                            /\ LsRemoteOK(q \o c[i], det.accepted)
        /\ LET c == ProbedWith(det.prefix) IN
           IF \E b \in BoundaryCandidates(det.path) : LsRemoteOK(det.prefix \o b, det.accepted)
           THEN /\ det.err = "nil"
                /\ c # << >>
                /\ LsRemoteOK(det.prefix \o c[Len(c)], det.accepted)
                /\ det.r.RepoName = c[Len(c)]
                /\ det.r.Remote = det.prefix \o c[Len(c)]
                /\ det.r.RepoName \o det.r.Path = det.path
           ELSE det.err = "ErrInvalidGitURL"

\* "a@a:a/a/a" with only "a@a:a/a" accepted: RepoName "a/a", Path "/a"
C13_Witness ==
    /\ det.call = "done"
    /\ det.shape = "scp"
    /\ det.err = "nil"
    /\ Len(det.probes) = 2
    /\ det.r.RepoName = <<97, 47, 97>>
    /\ det.r.Path = <<47, 97>>

\* C14 as stated: after a successful Detect, Remote is Protocol, then "://"
\* or ":", then RepoName, and URL is Remote followed by Path.
C14_RemoteIsProtocolRepoName ==
    (det.call = "done" /\ det.err = "nil") =>
        /\ \/ det.r.Remote = det.r.Protocol \o SchemeSep \o det.r.RepoName
           \/ det.r.Remote = det.r.Protocol \o <<58>> \o det.r.RepoName
        /\ det.r.URL = det.r.Remote \o det.r.Path

\* C14 amended: after a successful Detect, Remote is the prefix the shape
\* probes with followed by RepoName, and RepoName followed by Path is the
\* text after the prefix.  The prefix is the URL up to and including its
\* first ':' in the SCP-like shape and Protocol followed by "://" in the
\* other three; URL is Remote followed by Path in the SCP-like and the
\* protocol:// shape, and Protocol, "://", URL is Remote followed by Path in
\* the local and the bare shape.
C14_RemoteIsPrefixRepoName ==
    (det.call = "done" /\ det.err = "nil") =>
        /\ det.r.Remote = det.prefix \o det.r.RepoName
        /\ det.r.RepoName \o det.r.Path = det.path
        /\ det.shape = "scp" =>
              /\ det.prefix = Slice(det.r.URL, 0, Index(det.r.URL, 58) + 1)
              /\ det.r.URL = det.r.Remote \o det.r.Path
        /\ det.shape = "protocol" =>
              /\ det.prefix = det.r.Protocol \o SchemeSep
              /\ det.r.URL = det.r.Remote \o det.r.Path
        /\ det.shape \in {"local", "bare"} =>
              /\ det.prefix = det.r.Protocol \o SchemeSep
              /\ det.r.Protocol \o SchemeSep \o det.r.URL = det.r.Remote \o det.r.Path

\* a local path detected with a rest: "/a/a" with "file:///a" accepted
C14_Witness ==
    /\ det.call = "done"
    /\ det.err = "nil"
    /\ det.shape = "local"
    /\ det.r.Path # << >>
    /\ det.r.URL # det.r.Remote \o det.r.Path

\* the place of a probe in the order http://, https://, file://
PrefixRank(q) ==
    IF StartsWith(q, HttpPrefix) THEN 1
    ELSE IF StartsWith(q, HttpsPrefix) THEN 2
    ELSE 3

\* the protocol of a prefix: the text before "://"
ProtocolOf(prefix) == SubSeq(prefix, 1, Len(prefix) - 3)

\* what C19 says of a returned Detect whose URL is SCP-like exactly if scp
DetectFollowsShape(scp) ==
    LET url == det.r.URL
        slashPos == Index(url, 47)
        colonPos == Index(url, 58)
        shape == IF scp THEN "scp"
                 ELSE IF IsProtocol(url, colonPos, slashPos) THEN "protocol"
                 ELSE IF IsLocal(url) THEN "local"
                 ELSE "bare"
        sent == {det.probes[i] : i \in 1..Len(det.probes)}
        accepts(q) == \E b \in BoundaryCandidates(url) : LsRemoteOK(q \o b, det.accepted)
    IN  /\ shape = "scp" =>
              /\ det.r.Protocol = <<115, 115, 104>>
              /\ \A q \in sent : StartsWith(q, Slice(url, 0, colonPos + 1))
        /\ shape = "protocol" =>
              /\ det.r.Protocol = Slice(url, 0, colonPos)
              /\ \A q \in sent : StartsWith(q, Slice(url, 0, colonPos + 3))
        /\ shape = "local" =>
              /\ det.r.Protocol = ProtocolOf(FilePrefix)
              /\ \A q \in sent : StartsWith(q, FilePrefix \o <<46>>)
                                 \/ StartsWith(q, FilePrefix \o <<47>>)
        /\ shape = "bare" =>
              /\ \A i, j \in 1..Len(det.probes) :
                    i < j => PrefixRank(det.probes[i]) <= PrefixRank(det.probes[j])
              /\ \A q \in sent : \E x \in {HttpPrefix, HttpsPrefix, FilePrefix} :
                    StartsWith(q, x \o url) \/ StartsWith(x \o url, q)
              /\ det.err = "nil" =>
                    det.r.Protocol =
                        IF accepts(HttpPrefix) THEN ProtocolOf(HttpPrefix)
                        ELSE IF accepts(HttpsPrefix) THEN ProtocolOf(HttpsPrefix)
                        ELSE ProtocolOf(FilePrefix)
        /\ (\A q \in sent : ~LsRemoteOK(q, det.accepted)) <=> det.err = "ErrInvalidGitURL"

\* C19 as stated: the URL is SCP-like when its first '@' stands before its
\* first ':' and that before any '/'; the shapes are tried in the order
\* SCP-like, protocol://, local path, bare host; Protocol is ssh, the text
\* before the colon, file, or the first of http, https, file with an accepted
\* candidate; the bare shape probes http:// first, then https://, then
\* file://; Detect returns ErrInvalidGitURL when every probe is rejected.
C19_DetectPicksShape ==
    det.call = "done" =>
        DetectFollowsShape(IsScpAnyAt(Index(det.r.URL, 64), Index(det.r.URL, 58),
                                      Index(det.r.URL, 47)))

\* C19 amended: the same, the URL being SCP-like only when the '@' is not
\* its first character.
C19_DetectPicksShapeWithUser ==
    det.call = "done" =>
        DetectFollowsShape(/\ Index(det.r.URL, 64) > 0
                           /\ IsScpAnyAt(Index(det.r.URL, 64), Index(det.r.URL, 58),
                                         Index(det.r.URL, 47)))

\* "@a:a" detected as a bare host: http:// rejected, https://@a:a accepted
C19_Witness ==
    /\ det.call = "done"
    /\ det.err = "nil"
    /\ det.r.URL = <<64, 97, 58, 97>>
    /\ det.r.Protocol = ProtocolOf(HttpsPrefix)
    /\ Len(det.probes) = 2

(***************************************************************************)
(* Properties of RepoWalker.Visit.                                         *)
(***************************************************************************)
\* where in the trace of the walk the event stands; for "filter" the
\* invocations of filters on the entry, rejecting or not
Where(ev, at) ==
    {i \in 1..Len(walk.log) :
        /\ walk.log[i].at = at
        /\ \/ walk.log[i].ev = ev
           \/ ev = "filter" /\ walk.log[i].ev = "reject"}

Happened(ev, at) == Where(ev, at) # {}

When(ev, at) == CHOOSE i \in Where(ev, at) : TRUE

\* the entries below the directory, at any depth
Below(dir) ==
    {e \in walk.tree : Len(e) > Len(dir) /\ SubSeq(e, 1, Len(dir)) = dir}

\* the directory is opened, or the attempt to open it fails
OpenTried(dir) == Happened("open", dir) \/ Happened("opening", dir)

WhenOpened(dir) ==
    CHOOSE i \in Where("open", dir) \cup Where("opening", dir) : TRUE

\* no filter rejects the entry
Passes(e) == \A k \in 1..NumFilters : <<k, e>> \notin walk.rejects

\* C15: an entry read from a directory goes through the filters in the order
\* of registration before the callback; once a filter rejects it no further
\* filter runs on it, the callback is not invoked for it, it is not opened,
\* and nothing below it is visited, in either order of traversal.
C15_RejectedEntrySkipped ==
    walk.call = "done" =>
        \A e \in walk.tree :
            /\ \A i \in Where("filter", e) :
                  walk.log[i].k = 1 + Cardinality({j \in Where("filter", e) : j < i})
            /\ (Happened("read", e) /\ walk.err = <<"nil">>) => Happened("filter", e)
            /\ Happened("call", e) =>
                  /\ Passes(e)
                  /\ Cardinality(Where("filter", e)) = NumFilters
                  /\ \A i \in Where("filter", e) :
                        When("read", e) < i /\ i < When("call", e)
            /\ \A k \in 1..NumFilters :
                  (<<k, e>> \in walk.rejects /\ \E i \in Where("filter", e) : walk.log[i].k = k) =>
                      /\ \A i \in Where("filter", e) : walk.log[i].k <= k
                      /\ ~Happened("call", e)
                      /\ ~Happened("open", e)
                      /\ ~Happened("opening", e)
                      /\ \A d \in Below(e) : \A i \in 1..Len(walk.log) : walk.log[i].at # d

\* the first filter rejects a directory that holds entries, breadth first
C15_Witness ==
    /\ walk.call = "done"
    /\ walk.BreadthFirst
    /\ walk.err = <<"nil">>
    /\ \E e \in walk.tree :
          /\ walk.rejects = {<<1, e>>}
          /\ Below(e) # {}
          /\ Happened("filter", e)
          /\ \E x \in walk.tree : Happened("call", x)

\* C16: depth first, the callback is invoked for an accepted directory, then
\* for every accepted entry below it, before it is invoked for an entry that
\* comes later in the directory's parent.
C16_SubtreeBeforeSibling ==
    (walk.call = "done" /\ ~walk.BreadthFirst) =>
        \A d \in walk.tree :
            (Happened("call", d) /\ IsDir(walk, d)) =>
                /\ \A y \in Below(d) :
                      Happened("call", y) => When("call", d) < When("call", y)
                /\ \A x \in walk.tree :
                      (/\ Parent(x) = Parent(d)
                       /\ x[Len(x)] > d[Len(d)]
                       /\ Happened("call", x)) =>
                          \A y \in Below(d) :
                              (\A a \in Below(d) \cup {d} :
                                    (a = y \/ y \in Below(a)) => Passes(a)) =>
                                  /\ Happened("call", y)
                                  /\ When("call", y) < When("call", x)

\* a walk, depth first, of a directory with an entry and a later sibling
C16_Witness ==
    /\ walk.call = "done"
    /\ ~walk.BreadthFirst
    /\ walk.err = <<"nil">>
    /\ walk.rejects = {}
    /\ <<1, 1, 1>> \in walk.tree
    /\ Happened("call", <<2>>)

\* C17: breadth first, the callback is invoked for the entries of a depth,
\* in all directories of that depth, before it is invoked for any entry
\* further down.
C17_LevelOrder ==
    (walk.call = "done" /\ walk.BreadthFirst) =>
        \A i, j \in 1..Len(walk.log) :
            (i < j /\ walk.log[i].ev = "call" /\ walk.log[j].ev = "call") =>
                Len(walk.log[i].at) <= Len(walk.log[j].at)

\* C18: the first error of a walk ends it: after it no filter and no callback
\* is invoked and nothing is read or opened, Visit returns that error, and
\* every directory opened during the walk is closed when Visit returns,
\* after an error as after a walk to the end.
C18_ErrorAbortsAndCloses ==
    walk.call = "done" =>
        /\ \A i \in 1..Len(walk.log) :
              walk.log[i].ev = "error" =>
                  /\ walk.err \in walk.faults
                  /\ walk.err[2] = walk.log[i].k
                  /\ walk.err[3] = walk.log[i].at
                  /\ \A j \in (i + 1)..Len(walk.log) : walk.log[j].ev = "close"
        /\ walk.err # <<"nil">> <=> \E i \in 1..Len(walk.log) : walk.log[i].ev = "error"
        /\ walk.faults = {} => walk.err = <<"nil">>
        /\ \A dir \in walk.tree \cup {WalkRoot} :
              /\ Cardinality(Where("open", dir)) = Cardinality(Where("close", dir))
              /\ Cardinality(Where("open", dir)) <= 1
              /\ Happened("open", dir) => When("open", dir) < When("close", dir)

\* the callback fails two directories down, three directories being open
C18_Witness ==
    /\ walk.call = "done"
    /\ walk.err # <<"nil">>
    /\ walk.err[1] = "call"
    /\ Len(walk.err[3]) = 3
    /\ Cardinality({i \in 1..Len(walk.log) : walk.log[i].ev = "close"}) = 3

\* C20: breadth first, the callback is invoked for every accepted entry of a
\* directory before any directory in it is opened, and the accepted
\* directories in it are then walked one after the other in the order in
\* which they were read.
C20_EntriesBeforeSubdirs ==
    (walk.call = "done" /\ walk.BreadthFirst) =>
        \A c \in walk.tree :
            /\ \A x \in walk.tree :
                  (Parent(x) = Parent(c) /\ Happened("call", x) /\ OpenTried(c)) =>
                      /\ Happened("call", c)
                      /\ When("call", x) < WhenOpened(c)
            /\ \A x \in walk.tree :
                  (/\ Parent(x) = Parent(c)
                   /\ x[Len(x)] > c[Len(c)]
                   /\ OpenTried(x)
                   /\ Happened("call", c)
                   /\ IsDir(walk, c)) =>
                      /\ Happened("open", c)
                      /\ Happened("close", c)
                      /\ When("close", c) < WhenOpened(x)
            /\ (walk.err = <<"nil">> /\ Happened("call", c) /\ IsDir(walk, c)) =>
                  Happened("open", c)

\* a walk, breadth first, of two directories that hold an entry each
C20_Witness ==
    /\ walk.call = "done"
    /\ walk.BreadthFirst
    /\ walk.err = <<"nil">>
    /\ walk.rejects = {}
    /\ Happened("call", <<1, 1>>)
    /\ Happened("call", <<2, 1>>)

=============================================================================
